---- MODULE Spec2Model ----
(***************************************************************************)
(* A model of pyop's OpenID Connect provider core (src/pyop/provider.py):  *)
(* the authentication-request validator pipeline, the error redirect of    *)
(* InvalidAuthenticationRequest, Provider.authorize, ID Token construction *)
(* the token endpoint's code exchange and refresh, and the userinfo        *)
(* endpoint.                                                               *)
(*                                                                         *)
(* Conventions.  A request parameter that is absent is the empty value of  *)
(* its type ("" for a string, <<>> for response_type, {} for scope, the    *)
(* empty map for claims): the urlencoded parser drops blank values, so a   *)
(* present parameter is never empty.  Python's None is the string "None"   *)
(* where a string is expected.  Opaque values (codes, tokens, subject      *)
(* identifiers, hashes) are strings built from their inputs, so that two   *)
(* of them are equal exactly when their inputs are.                        *)
(***************************************************************************)
EXTENDS Integers, Sequences, FiniteSets, TLC

VARIABLES
    auth_req,             \* the request handed to parse_authentication_request
    parse_result,         \* what parse_authentication_request did with it
    error_url,            \* what to_error_url returned for the raised error
    authz,                \* the last call of Provider.authorize and its outcome
    authorization_codes,  \* authz_state: code number -> [request, sub, used]
    access_tokens,        \* authz_state: token number -> [request, sub, scope, expired]
    refresh_tokens,       \* authz_state: refresh number -> [access_token, scope, used]
    subject_identifiers,  \* authz_state: the (user_id, sub) pairs handed out
    now,                  \* the wall clock read by time.time()
    calls,                \* the handle_token_request calls in progress
    userinfo              \* the last call of handle_userinfo_request and its outcome

vars == <<auth_req, parse_result, error_url, authz, authorization_codes,
          access_tokens, refresh_tokens, subject_identifiers, now, calls, userinfo>>

(***************************************************************************)
(* Bounds of the model.                                                    *)
(***************************************************************************)
\* longest response_type list of a request (a list, so values may repeat)
MaxRTLen == 3
\* the clock takes the values 0..MaxClock
MaxClock == 2
\* authorization codes the authorization state may issue
MaxCodes == 1
\* access tokens the authorization state may issue
MaxTokens == 2
\* concurrent handle_token_request calls
MaxCalls == 2
\* authorizations that precede the userinfo requests
MaxAuthorizations == 2

(***************************************************************************)
(* Partial maps (Python dicts with string keys).                           *)
(***************************************************************************)
EmptyMap == [k \in {} |-> ""]

\* dict.update: the entries of m2 win over those of m1
Update(m1, m2) ==
    [k \in (DOMAIN m1) \cup (DOMAIN m2) |-> IF k \in DOMAIN m2 THEN m2[k] ELSE m1[k]]

Range(s) == {s[i] : i \in DOMAIN s}

(***************************************************************************)
(* The provider's configuration and client registry.                       *)
(***************************************************************************)
configuration_information ==
    [issuer |-> "https://op",
     subject_types_supported |-> <<"pairwise">>,
     id_token_signing_alg_values_supported |-> <<"RS256">>,
     scopes_supported |-> <<"openid", "profile">>]

id_token_lifetime == 3600

\* client metadata; an optional key that is not registered is "".  Client c3
\* registers redirect URIs on two hosts.
clients ==
    [c \in {"c1", "c2", "c3", "c4"} |->
        CASE c = "c1" ->
               [redirect_uris |-> {"https://rp1/cb"},
                response_types |-> {<<"code">>, <<"id_token">>, <<"id_token", "token">>,
                                    <<"code", "id_token">>, <<"code", "id_token", "token">>},
                subject_type |-> "",
                id_token_signed_response_alg |-> ""]
          [] c = "c2" ->
               [redirect_uris |-> {"https://rp2/cb"},
                response_types |-> {<<"code">>, <<"code", "token">>},
                subject_type |-> "public",
                id_token_signed_response_alg |-> "RS384"]
          [] c = "c3" ->
               [redirect_uris |-> {"https://rp1/cb", "https://rp2/cb"},
                response_types |-> {<<"code">>},
                subject_type |-> "pairwise",
                id_token_signed_response_alg |-> ""]
          [] c = "c4" ->
               [redirect_uris |-> {"https://rp1/cb"},
                response_types |-> {<<"code">>},
                subject_type |-> "public",
                id_token_signed_response_alg |-> ""]]

(***************************************************************************)
(* Authentication requests.                                                *)
(***************************************************************************)
ResponseTypeValues == {"code", "token", "id_token"}

SeqsUpTo(S, n) == UNION {[1..k -> S] : k \in 0..n}

\* a requested claim: null, the OIDC form {"value": X}, or a bare string X
Null == [kind |-> "null", value |-> ""]

ClaimValue(x) == [kind |-> "value", value |-> x]

ClaimBare(x) == [kind |-> "bare", value |-> x]

\* the claims request parameter: "id_token" and "userinfo" members, each a
\* map from claim names to claim requests
ClaimsParameters ==
    {EmptyMap,
     [m \in {"id_token"} |-> [c \in {"name"} |-> Null]],
     [m \in {"userinfo"} |-> [c \in {"email"} |-> Null]],
     [m \in {"id_token"} |-> [c \in {"sub"} |-> ClaimValue("pairwise(rp1,u1)")]],
     [m \in {"id_token"} |-> [c \in {"sub"} |-> ClaimBare("pairwise(rp1,u1)")]],
     [m \in {"userinfo"} |-> [c \in {"sub"} |-> ClaimBare("public(u1)")]],
     [m \in {"id_token", "userinfo"} |->
        [c \in {"sub"} |-> IF m = "id_token" THEN ClaimBare("pairwise(rp1,u1)")
                                              ELSE ClaimBare("other")]]}

AuthenticationRequests ==
    [client_id : {"c1", "c2", "c3", "c4", "cX"},
     redirect_uri : {"", "https://rp1/cb", "https://rp2/cb", "https://evil/cb"},
     response_type : SeqsUpTo(ResponseTypeValues, MaxRTLen),
     scope : {{}, {"openid"}, {"openid", "profile"}, {"openid", "writer"}, {"profile"}},
     state : {"", "xyz"},
     nonce : {"", "n"},
     claims : ClaimsParameters]

\* key in request
Has(request, key) ==
    CASE key = "response_type" -> request.response_type # <<>>
      [] key = "scope" -> request.scope # {}
      [] key = "claims" -> DOMAIN request.claims # {}
      [] OTHER -> request[key] # ""

(***************************************************************************)
(* InvalidAuthenticationRequest and its redirect.                          *)
(***************************************************************************)
NoRequest ==
    [client_id |-> "", redirect_uri |-> "", response_type |-> <<>>, scope |-> {},
     state |-> "", nonce |-> "", claims |-> EmptyMap]

NoError == [message |-> "", request |-> NoRequest, oauth_error |-> "None"]

InvalidAuthenticationRequest(message, parsed_request, oauth_error) ==
    [message |-> message, request |-> parsed_request, oauth_error |-> oauth_error]

\* should_fragment_encode: the list response_type is compared with ['code'];
\* a request without response_type makes the subscript raise KeyError
should_fragment_encode(authentication_request) ==
    IF authentication_request.response_type = <<"code">> THEN FALSE ELSE TRUE

\* ErrorResponse(...).request(location, fragment_enc): the location, the
\* separator and the urlencoded parameters
ErrorResponseRequest(error, error_message, location, fragment_enc) ==
    [location |-> location,
     separator |-> IF fragment_enc THEN "#" ELSE "?",
     error |-> error,
     error_message |-> error_message]

NoUrl == [location |-> "", separator |-> "", error |-> "", error_message |-> ""]

\* to_error_url: [outcome, url] with outcome "url", "None" or "KeyError"
to_error_url(error) ==
    LET redirect_uri == error.request.redirect_uri
    IN  IF redirect_uri # "" /\ error.oauth_error # "None"
        THEN IF ~ Has(error.request, "response_type")
             THEN [outcome |-> "KeyError", url |-> NoUrl]
             ELSE [outcome |-> "url",
                   url |-> ErrorResponseRequest(error.oauth_error, error.message, redirect_uri,
                                                should_fragment_encode(error.request))]
        ELSE [outcome |-> "None", url |-> NoUrl]

(***************************************************************************)
(* The validators, in the order Provider.__init__ appends them.            *)
(***************************************************************************)
\* AuthorizationRequest.verify(): the required parameters, a nonce when the
\* response carries a token, and the openid scope
_authorization_request_verify(authentication_request) ==
    LET r == authentication_request
        missing == \/ ~ Has(r, "response_type")
                   \/ ~ Has(r, "client_id")
                   \/ ~ Has(r, "redirect_uri")
                   \/ ~ Has(r, "scope")
                   \/ ({"token", "id_token"} \cap Range(r.response_type) # {}
                       /\ ~ Has(r, "nonce"))
                   \/ "openid" \notin r.scope
    IN  IF missing
        THEN InvalidAuthenticationRequest("schema", r, "invalid_request")
        ELSE NoError

_client_id_is_known(authentication_request) ==
    IF authentication_request.client_id \notin DOMAIN clients
    THEN InvalidAuthenticationRequest("Unknown client_id", authentication_request,
                                      "unauthorized_client")
    ELSE NoError

_redirect_uri_is_in_registered_redirect_uris_wrong(authentication_request) ==
    LET allowed_redirect_uris == clients[authentication_request.client_id].redirect_uris
    IN  IF authentication_request.redirect_uri \notin allowed_redirect_uris
        THEN InvalidAuthenticationRequest("Redirect uri is not registered",
                                          authentication_request, "invalid_request")
        ELSE NoError

_redirect_uri_is_in_registered_redirect_uris(authentication_request) ==
    LET error == InvalidAuthenticationRequest("Redirect uri is not registered",
                                              authentication_request, "None")
        allowed_redirect_uris == clients[authentication_request.client_id].redirect_uris
    IN  IF authentication_request.redirect_uri \notin allowed_redirect_uris
        THEN error
        ELSE NoError

_response_type_is_in_registered_response_types_wrong(authentication_request) ==
    LET error == InvalidAuthenticationRequest("Response type is not registered",
                                              authentication_request, "invalid_request")
        allowed_response_types == clients[authentication_request.client_id].response_types
    IN  IF authentication_request.response_type \notin allowed_response_types
           /\ Len(authentication_request.response_type) = 1
        THEN error
        ELSE NoError

_response_type_is_in_registered_response_types(authentication_request) ==
    LET error == InvalidAuthenticationRequest("Response type is not registered",
                                              authentication_request, "invalid_request")
        allowed_response_types == clients[authentication_request.client_id].response_types
    IN  IF Range(authentication_request.response_type)
              \notin {Range(rt) : rt \in allowed_response_types}
        THEN error
        ELSE NoError

_userinfo_claims_only_specified_when_access_token_is_issued(authentication_request) ==
    LET will_issue_access_token == authentication_request.response_type # <<"id_token">>
        contains_userinfo_claims_request ==
            Has(authentication_request, "claims")
            /\ "userinfo" \in DOMAIN authentication_request.claims
    IN  IF ~ will_issue_access_token /\ contains_userinfo_claims_request
        THEN InvalidAuthenticationRequest("Userinfo claims cannot be requested",
                                          authentication_request, "invalid_request")
        ELSE NoError

_requested_scope_is_supported(authentication_request) ==
    LET requested_scopes == authentication_request.scope
        supported_scopes == Range(configuration_information.scopes_supported)
        requested_unsupported_scopes == requested_scopes \ supported_scopes
    IN  IF requested_unsupported_scopes # {}
        THEN InvalidAuthenticationRequest("Request contains unsupported/unknown scopes",
                                          authentication_request, "invalid_scope")
        ELSE NoError

authentication_request_validators_wrong ==
    <<"_authorization_request_verify", "_client_id_is_known",
      "_redirect_uri_is_in_registered_redirect_uris",
      "_response_type_is_in_registered_response_types",
      "_requested_scope_is_supported",
      "_userinfo_claims_only_specified_when_access_token_is_issued">>

authentication_request_validators ==
    <<"_authorization_request_verify", "_client_id_is_known",
      "_redirect_uri_is_in_registered_redirect_uris",
      "_response_type_is_in_registered_response_types",
      "_userinfo_claims_only_specified_when_access_token_is_issued",
      "_requested_scope_is_supported">>

RunValidator(validator, r) ==
    CASE validator = "_authorization_request_verify" -> _authorization_request_verify(r)
      [] validator = "_client_id_is_known" -> _client_id_is_known(r)
      [] validator = "_redirect_uri_is_in_registered_redirect_uris" ->
            _redirect_uri_is_in_registered_redirect_uris(r)
      [] validator = "_response_type_is_in_registered_response_types" ->
            _response_type_is_in_registered_response_types(r)
      [] validator = "_userinfo_claims_only_specified_when_access_token_is_issued" ->
            _userinfo_claims_only_specified_when_access_token_is_issued(r)
      [] validator = "_requested_scope_is_supported" -> _requested_scope_is_supported(r)

\* the loop of parse_authentication_request from validator i on: the first
\* error raised, or NoError when every validator returns
RECURSIVE RunValidatorsFrom(_, _)
RunValidatorsFrom(i, r) ==
    IF i > Len(authentication_request_validators)
    THEN NoError
    ELSE LET e == RunValidator(authentication_request_validators[i], r)
         IN  IF e # NoError THEN e ELSE RunValidatorsFrom(i + 1, r)

\* parse_authentication_request: the request is returned or an error raised
parse_authentication_request(request) ==
    LET e == RunValidatorsFrom(1, request)
    IN  IF e = NoError
        THEN [outcome |-> "returned", auth_req |-> request, error |-> NoError]
        ELSE [outcome |-> "InvalidAuthenticationRequest", auth_req |-> request, error |-> e]

NoParse == [outcome |-> "none", auth_req |-> NoRequest, error |-> NoError]

NoErrorUrl == [outcome |-> "none", url |-> NoUrl]

(***************************************************************************)
(* Collaborators: the user-info source and the authorization state.        *)
(***************************************************************************)
Users == {"u1", "u2"}

\* the attributes the user-info source holds for each user
UserDb ==
    [u \in Users |->
        IF u = "u1" THEN [c \in {"name", "email"} |-> IF c = "name" THEN "Alice" ELSE "a@rp"]
                    ELSE [c \in {"name"} |-> "Bob"]]

\* Userinfo.get_claims_for: the requested claims the user has
get_claims_for(user_id, requested_claims) ==
    [c \in (DOMAIN requested_claims) \cap (DOMAIN UserDb[user_id]) |-> UserDb[user_id][c]]

\* oic.oic.scope2claims over the scopes of the model
scope2claims(scope) ==
    [c \in (IF "openid" \in scope THEN {"sub"} ELSE {})
           \cup (IF "profile" \in scope THEN {"name"} ELSE {}) |-> Null]

\* urlparse(redirect_uri).netloc
Netloc(redirect_uri) ==
    CASE redirect_uri = "https://rp1/cb" -> "rp1"
      [] redirect_uri = "https://rp2/cb" -> "rp2"
      [] redirect_uri = "https://evil/cb" -> "evil"
      [] OTHER -> ""

\* AuthorizationState.get_subject_identifier
get_subject_identifier(subject_type, user_id, sector_identifier) ==
    IF subject_type = "public"
    THEN "public(" \o user_id \o ")"
    ELSE "pairwise(" \o sector_identifier \o "," \o user_id \o ")"

\* AuthorizationState.get_user_id_for_subject_identifier
get_user_id_for_subject_identifier(sub) ==
    (CHOOSE p \in subject_identifiers : p.sub = sub).user_id

access_token_lifetime == 3600

\* the value of the n-th authorization code, access token, refresh token
CodeValue(n) == "code" \o ToString(n)

AccessTokenValue(n) == "at" \o ToString(n)

RefreshTokenValue(n) == "rt" \o ToString(n)

\* AuthorizationState.create_authorization_code(request, sub)
create_authorization_code(authorization_request, sub) ==
    Append(authorization_codes,
           [request |-> authorization_request, sub |-> sub, used |-> FALSE])

\* AuthorizationState.create_access_token(request, sub), with the scope the
\* token is granted; a token has not expired when it is created
create_access_token(authorization_request, sub, scope) ==
    Append(access_tokens, [request |-> authorization_request, sub |-> sub, scope |-> scope,
                           expired |-> FALSE])

\* AuthorizationState.create_refresh_token(access_token_value)
create_refresh_token(access_token_value) ==
    Append(refresh_tokens,
           [access_token |-> access_token_value,
            scope |-> access_tokens[CHOOSE n \in 1..Len(access_tokens) :
                                        AccessTokenValue(n) = access_token_value].scope,
            used |-> FALSE])

\* AuthorizationState.exchange_code_for_token for code number n, atomic and
\* single shot: a used code raises, an unused one is marked used and an
\* access token is created for its request and subject
exchange_code_for_token(n) ==
    IF authorization_codes[n].used
    THEN [raised |-> TRUE, authorization_codes |-> authorization_codes,
          access_tokens |-> access_tokens]
    ELSE [raised |-> FALSE,
          authorization_codes |-> [authorization_codes EXCEPT ![n].used = TRUE],
          access_tokens |-> create_access_token(authorization_codes[n].request,
                                                authorization_codes[n].sub,
                                                authorization_codes[n].request.scope)]

\* AccessToken(value, type, expires_in)
AccessToken(n) ==
    [value |-> AccessTokenValue(n), type |-> "Bearer", expires_in |-> access_token_lifetime]

\* jws.left_hash(value, hash_alg): the left half of the digest, as a value
\* that is a function of the algorithm and the hashed string
left_hash(value, hash_alg) == hash_alg \o "(" \o value \o ")"

(***************************************************************************)
(* Provider: subject identifier, requested claims, ID Token.               *)
(***************************************************************************)
_create_subject_identifier(user_id, client_id, redirect_uri) ==
    LET supported_subject_types == configuration_information.subject_types_supported[1]
        subject_type == IF clients[client_id].subject_type # ""
                        THEN clients[client_id].subject_type
                        ELSE supported_subject_types
        sector_identifier == Netloc(redirect_uri)
    IN  get_subject_identifier(subject_type, user_id, sector_identifier)

_get_requested_claims_in(authentication_request, response_method) ==
    IF Has(authentication_request, "claims")
       /\ response_method \in DOMAIN authentication_request.claims
    THEN authentication_request.claims[response_method]
    ELSE EmptyMap

\* truthiness of claims[member].get('sub'): a missing or null claim is falsy
RequestedSub(authentication_request, member) ==
    LET requested == _get_requested_claims_in(authentication_request, member)
    IN  IF "sub" \in DOMAIN requested THEN requested["sub"] ELSE Null

_check_subject_identifier_matches_requested_wrong(authentication_request, sub) ==
    LET requested_sub == RequestedSub(authentication_request, "id_token")
    IN  /\ Has(authentication_request, "claims")
        /\ requested_sub # Null
        /\ requested_sub # ClaimBare(sub)

\* _check_subject_identifier_matches_requested: TRUE when AuthorizationError
\* is raised.  The requested sub is compared as the claims parameter holds
\* it, so it equals the string sub only when it is itself that string.
_check_subject_identifier_matches_requested(authentication_request, sub) ==
    LET requested_id_token_sub == RequestedSub(authentication_request, "id_token")
        requested_userinfo_sub == RequestedSub(authentication_request, "userinfo")
        requested_sub == IF requested_id_token_sub # Null THEN requested_id_token_sub
                                                          ELSE requested_userinfo_sub
    IN  /\ Has(authentication_request, "claims")
        /\ \/ /\ requested_id_token_sub # Null
              /\ requested_userinfo_sub # Null
              /\ requested_id_token_sub # requested_userinfo_sub
           \/ /\ requested_sub # Null
              /\ requested_sub # ClaimBare(sub)

\* the signing algorithm and the hash algorithm derived from its last three
\* characters
SigningAlg(client_id) ==
    IF clients[client_id].id_token_signed_response_alg # ""
    THEN clients[client_id].id_token_signed_response_alg
    ELSE configuration_information.id_token_signing_alg_values_supported[1]

HashAlg(alg) ==
    CASE alg = "RS256" -> "HS256"
      [] alg = "RS384" -> "HS384"
      [] alg = "RS512" -> "HS512"

\* the keyword arguments IdToken(...) is given by name
IdTokenKeywords == {"iss", "sub", "aud", "iat", "exp"}

NoIdToken ==
    [alg |-> "", iss |-> "", sub |-> "", aud |-> "", iat |-> 0, exp |-> 0,
     claims |-> EmptyMap]

\* the claims c_hash, at_hash, user claims and extra claims, in the order
\* args is filled
IdTokenArgs(client_id, user_claims, authorization_code, access_token_value, extra) ==
    LET hash_alg == HashAlg(SigningAlg(client_id))
        c == IF authorization_code # "None"
             THEN [k \in {"c_hash"} |-> left_hash(authorization_code, hash_alg)]
             ELSE EmptyMap
        a == IF access_token_value # "None"
             THEN [k \in {"at_hash"} |-> left_hash(access_token_value, hash_alg)]
             ELSE EmptyMap
    IN  Update(Update(Update(c, a), user_claims), extra)

\* _create_signed_id_token: [outcome, id_token].  iat is the clock read t1
\* and exp the later clock read t2 plus the lifetime.  A claim of args that
\* is also passed by name makes the IdToken(...) call raise TypeError.
_create_signed_id_token(client_id, sub, user_claims, nonce, authorization_code, access_token_value, extra, t1, t2) ==
    LET args == IdTokenArgs(client_id, user_claims, authorization_code,
                            access_token_value, extra)
        with_nonce == IF nonce # "" THEN Update(args, [k \in {"nonce"} |-> nonce]) ELSE args
    IN  IF (DOMAIN args) \cap IdTokenKeywords # {}
        THEN [outcome |-> "TypeError", id_token |-> NoIdToken]
        ELSE [outcome |-> "signed",
              id_token |-> [alg |-> SigningAlg(client_id),
                            iss |-> configuration_information.issuer,
                            sub |-> sub,
                            aud |-> client_id,
                            iat |-> t1,
                            exp |-> t2 + id_token_lifetime,
                            claims |-> with_nonce]]

\* extra_id_token_claims as the caller passes it: None, a mapping, or a
\* callable of (user_id, client_id)
ExtraIdTokenClaims ==
    {[kind |-> "None", map |-> EmptyMap],
     [kind |-> "callable", map |-> EmptyMap]}
    \cup {[kind |-> "map", map |-> [k \in {n} |-> "extra"]] :
            n \in {"acr", "name", "nonce", "c_hash", "at_hash", "iss"}}

ResolveExtraClaims(extra_id_token_claims, user_id, client_id) ==
    CASE extra_id_token_claims.kind = "None" -> EmptyMap
      [] extra_id_token_claims.kind = "callable" ->
            [k \in {"acr"} |-> "loa(" \o user_id \o "," \o client_id \o ")"]
      [] OTHER -> extra_id_token_claims.map

(***************************************************************************)
(* Provider.authorize.                                                     *)
(***************************************************************************)
NoAuthz ==
    [status |-> "none", request |-> NoRequest, user_id |-> "", extra |-> EmptyMap,
     sub |-> "", authz_code |-> "None", access_token_value |-> "None",
     requested_claims |-> EmptyMap, response |-> EmptyMap]

NoUserinfo ==
    [status |-> "none", bearer_token |-> "", active |-> FALSE,
     requested_claims |-> EmptyMap, response |-> EmptyMap]

_add_access_token_to_response_wrong(response, access_token) ==
    Update(response,
           [k \in {"access_token", "token_type"} |->
                CASE k = "access_token" -> access_token.value
                  [] k = "token_type" -> access_token.type])

\* _add_access_token_to_response
_add_access_token_to_response(response, access_token) ==
    Update(response,
           [k \in {"access_token", "token_type", "expires_in"} |->
                CASE k = "access_token" -> access_token.value
                  [] k = "token_type" -> access_token.type
                  [] k = "expires_in" -> access_token.expires_in])

\* the state echo that ends authorize
StateEcho(authentication_request, response) ==
    IF Has(authentication_request, "state")
    THEN Update(response, [k \in {"state"} |-> authentication_request.state])
    ELSE response

\* the claims authorize asks the user-info source for
AuthorizeRequestedClaims(authentication_request) ==
    LET requested_claims == _get_requested_claims_in(authentication_request, "id_token")
    IN  IF Len(authentication_request.response_type) = 1
        THEN Update(requested_claims, scope2claims(authentication_request.scope))
        ELSE requested_claims

Authorize_wrong(authentication_request, user_id, extra_id_token_claims, t2) ==
    LET r == authentication_request
        sub == _create_subject_identifier(user_id, r.client_id, r.redirect_uri)
        with_code == "code" \in Range(r.response_type)
        with_token == "token" \in Range(r.response_type)
        with_id_token == "id_token" \in Range(r.response_type)
        authz_code == IF with_code THEN CodeValue(Len(authorization_codes) + 1) ELSE "None"
        access_token == AccessToken(Len(access_tokens) + 1)
        access_token_value == IF with_token THEN access_token.value ELSE "None"
        response1 == IF with_code THEN [k \in {"code"} |-> authz_code] ELSE EmptyMap
        response2 == IF with_token THEN _add_access_token_to_response(response1, access_token)
                                   ELSE response1
        extra == ResolveExtraClaims(extra_id_token_claims, user_id, r.client_id)
        requested_claims == AuthorizeRequestedClaims(r)
        user_claims == get_claims_for(user_id, requested_claims)
        signed == _create_signed_id_token(r.client_id, sub, user_claims, r.nonce, authz_code,
                                          access_token_value, extra, now, t2)
        response3 == IF with_id_token
                     THEN Update(response2, [k \in {"id_token"} |-> signed.id_token])
                     ELSE response2
        call == [status |-> "returned", request |-> r, user_id |-> user_id,
                 extra |-> IF with_id_token THEN extra ELSE EmptyMap,
                 sub |-> sub, authz_code |-> authz_code,
                 access_token_value |-> access_token_value,
                 requested_claims |-> IF with_id_token THEN requested_claims ELSE EmptyMap,
                 response |-> StateEcho(r, response3)]
    IN  /\ with_code => Len(authorization_codes) < MaxCodes
        /\ with_token => Len(access_tokens) < MaxTokens
        /\ subject_identifiers' = subject_identifiers \cup {[user_id |-> user_id, sub |-> sub]}
        /\ IF _check_subject_identifier_matches_requested(r, sub)
           THEN /\ authz' = [NoAuthz EXCEPT !.status = "AuthorizationError", !.request = r,
                                            !.user_id = user_id, !.sub = sub]
                /\ authorization_codes' =
                      IF with_code THEN create_authorization_code(r, sub)
                                   ELSE authorization_codes
                /\ access_tokens' =
                      IF with_token THEN create_access_token(r, sub, r.scope)
                                    ELSE access_tokens
                /\ UNCHANGED now
           ELSE /\ authorization_codes' =
                      IF with_code THEN create_authorization_code(r, sub)
                                   ELSE authorization_codes
                /\ access_tokens' =
                      IF with_token THEN create_access_token(r, sub, r.scope)
                                    ELSE access_tokens
                /\ IF with_id_token
                   THEN /\ t2 \in now..MaxClock
                        /\ now' = t2
                        /\ authz' = IF signed.outcome = "TypeError"
                                    THEN [call EXCEPT !.status = "TypeError",
                                                      !.response = EmptyMap]
                                    ELSE call
                   ELSE /\ t2 = now
                        /\ now' = now
                        /\ authz' = call
        /\ UNCHANGED <<refresh_tokens, calls, userinfo>>

\* authorize(authentication_request, user_id, extra_id_token_claims); t2 is
\* the second clock read of _create_signed_id_token
Authorize(authentication_request, user_id, extra_id_token_claims, t2) ==
    LET r == authentication_request
        sub == _create_subject_identifier(user_id, r.client_id, r.redirect_uri)
        with_code == "code" \in Range(r.response_type)
        with_token == "token" \in Range(r.response_type)
        with_id_token == "id_token" \in Range(r.response_type)
        authz_code == IF with_code THEN CodeValue(Len(authorization_codes) + 1) ELSE "None"
        access_token == AccessToken(Len(access_tokens) + 1)
        access_token_value == IF with_token THEN access_token.value ELSE "None"
        response1 == IF with_code THEN [k \in {"code"} |-> authz_code] ELSE EmptyMap
        response2 == IF with_token THEN _add_access_token_to_response(response1, access_token)
                                   ELSE response1
        extra == ResolveExtraClaims(extra_id_token_claims, user_id, r.client_id)
        requested_claims == AuthorizeRequestedClaims(r)
        user_claims == get_claims_for(user_id, requested_claims)
        signed == _create_signed_id_token(r.client_id, sub, user_claims, r.nonce, authz_code,
                                          access_token_value, extra, now, t2)
        response3 == IF with_id_token
                     THEN Update(response2, [k \in {"id_token"} |-> signed.id_token])
                     ELSE response2
        call == [status |-> "returned", request |-> r, user_id |-> user_id,
                 extra |-> IF with_id_token THEN extra ELSE EmptyMap,
                 sub |-> sub, authz_code |-> authz_code,
                 access_token_value |-> access_token_value,
                 requested_claims |-> IF with_id_token THEN requested_claims ELSE EmptyMap,
                 response |-> StateEcho(r, response3)]
    IN  /\ with_code => Len(authorization_codes) < MaxCodes
        /\ with_token => Len(access_tokens) < MaxTokens
        /\ subject_identifiers' = subject_identifiers \cup {[user_id |-> user_id, sub |-> sub]}
        /\ IF _check_subject_identifier_matches_requested(r, sub)
           THEN /\ authz' = [NoAuthz EXCEPT !.status = "AuthorizationError", !.request = r,
                                            !.user_id = user_id, !.sub = sub]
                /\ UNCHANGED <<authorization_codes, access_tokens, now>>
           ELSE /\ authorization_codes' =
                      IF with_code THEN create_authorization_code(r, sub)
                                   ELSE authorization_codes
                /\ access_tokens' =
                      IF with_token THEN create_access_token(r, sub, r.scope)
                                    ELSE access_tokens
                /\ IF with_id_token
                   THEN /\ t2 \in now..MaxClock
                        /\ now' = t2
                        /\ authz' = IF signed.outcome = "TypeError"
                                    THEN [call EXCEPT !.status = "TypeError",
                                                      !.response = EmptyMap]
                                    ELSE call
                   ELSE /\ t2 = now
                        /\ now' = now
                        /\ authz' = call
        /\ UNCHANGED <<refresh_tokens, calls, userinfo>>

(***************************************************************************)
(* The authorization endpoint: a request is parsed; a rejected request is  *)
(* turned into its error redirect, an accepted one is authorized.          *)
(***************************************************************************)
ParseAuthenticationRequest ==
    /\ parse_result.outcome = "none"
    /\ \E request \in AuthenticationRequests :
          /\ auth_req' = request
          /\ parse_result' = parse_authentication_request(request)
    /\ UNCHANGED <<userinfo, error_url, authz, authorization_codes, access_tokens, refresh_tokens,
                   subject_identifiers, now, calls>>

ToErrorUrl ==
    /\ parse_result.outcome = "InvalidAuthenticationRequest"
    /\ error_url.outcome = "none"
    /\ error_url' = to_error_url(parse_result.error)
    /\ UNCHANGED <<userinfo, auth_req, parse_result, authz, authorization_codes, access_tokens,
                   refresh_tokens, subject_identifiers, now, calls>>

AuthorizeParsed ==
    /\ parse_result.outcome = "returned"
    /\ authz.status = "none"
    /\ \E user_id \in Users, extra \in ExtraIdTokenClaims, t2 \in 0..MaxClock :
          Authorize(parse_result.auth_req, user_id, extra, t2)
    /\ UNCHANGED <<auth_req, parse_result, error_url>>

Init ==
    /\ auth_req = NoRequest
    /\ parse_result = NoParse
    /\ error_url = NoErrorUrl
    /\ authz = NoAuthz
    /\ authorization_codes = <<>>
    /\ access_tokens = <<>>
    /\ refresh_tokens = <<>>
    /\ subject_identifiers = {}
    /\ now = 0
    /\ calls = <<>>
    /\ userinfo = NoUserinfo

Next ==
    \/ ParseAuthenticationRequest
    \/ ToErrorUrl
    \/ AuthorizeParsed

Spec == Init /\ [][Next]_vars

(***************************************************************************)
(* The token endpoint.  A handle_token_request call is a sequence of       *)
(* steps, one per access to the authorization state, so that calls         *)
(* interleave between them.                                                *)
(***************************************************************************)
Calls == 1..MaxCalls

\* client_secret_post credentials of the registered clients
ClientSecrets == [c \in {"c1", "c2"} |-> IF c = "c1" THEN "s1" ELSE "s2"]

Credentials ==
    {[client_id |-> "c1", client_secret |-> "s1"],
     [client_id |-> "c2", client_secret |-> "s2"],
     [client_id |-> "c1", client_secret |-> "bad"]}

\* the codes and refresh tokens a client can present: those issued so far
\* (the values are opaque and not guessed) and one that was never issued
PresentableCodes ==
    {CodeValue(n) : n \in 1..Len(authorization_codes)} \cup {"bogus"}

PresentableRefreshTokens ==
    {RefreshTokenValue(n) : n \in 1..Len(refresh_tokens)} \cup {"bogus"}

\* the parsed bodies of the token requests
TokenRequests ==
    {[client_id |-> cr.client_id, client_secret |-> cr.client_secret, grant_type |-> g,
      code |-> c, redirect_uri |-> u, refresh_token |-> "", scope |-> {}] :
        cr \in Credentials, g \in {"authorization_code"},
        c \in PresentableCodes, u \in {"https://rp1/cb", "https://rp2/cb"}}
    \cup
    {[client_id |-> cr.client_id, client_secret |-> cr.client_secret, grant_type |-> g,
      code |-> "", redirect_uri |-> "", refresh_token |-> t, scope |-> sc] :
        cr \in Credentials, g \in {"refresh_token"},
        t \in PresentableRefreshTokens, sc \in {{}, {"openid"}, {"openid", "writer"}}}
    \cup
    {[client_id |-> cr.client_id, client_secret |-> cr.client_secret, grant_type |-> g,
      code |-> c, redirect_uri |-> "https://rp1/cb", refresh_token |-> "", scope |-> {}] :
        cr \in Credentials, g \in {"", "password"}, c \in PresentableCodes}

NoTokenRequest ==
    [client_id |-> "", client_secret |-> "", grant_type |-> "", code |-> "",
     redirect_uri |-> "", refresh_token |-> "", scope |-> {}]

NoTokenError == [kind |-> "", oauth_error |-> ""]

InvalidTokenRequest(oauth_error) ==
    [kind |-> "InvalidTokenRequest", oauth_error |-> oauth_error]

\* the error the authorization state raises for an unknown or used grant
InvalidGrant == [kind |-> "InvalidAuthorizationCode", oauth_error |-> "invalid_grant"]

IdleCall ==
    [pc |-> "idle", request |-> NoTokenRequest, authentication_request |-> NoRequest,
     sub |-> "", user_id |-> "", access_token_value |-> "None",
     requested_claims |-> EmptyMap, response |-> EmptyMap, error |-> NoTokenError]

\* a call ends by raising an error: nothing is returned
Raise(call, error) == [call EXCEPT !.pc = "done", !.error = error, !.response = EmptyMap]

\* verify_client_authentication: the credentials are those of a registered
\* client
verify_client_authentication(token_request) ==
    /\ token_request.client_id \in DOMAIN ClientSecrets
    /\ token_request.client_secret = ClientSecrets[token_request.client_id]

\* the number of the authorization code, access token or refresh token with
\* a value, 0 for a value the authorization state does not know
CodeNumber(code) ==
    IF \E n \in 1..Len(authorization_codes) : CodeValue(n) = code
    THEN CHOOSE n \in 1..Len(authorization_codes) : CodeValue(n) = code
    ELSE 0

RefreshTokenNumber(value) ==
    IF \E n \in 1..Len(refresh_tokens) : RefreshTokenValue(n) = value
    THEN CHOOSE n \in 1..Len(refresh_tokens) : RefreshTokenValue(n) = value
    ELSE 0

AccessTokenNumber(value) ==
    IF \E n \in 1..Len(access_tokens) : AccessTokenValue(n) = value
    THEN CHOOSE n \in 1..Len(access_tokens) : AccessTokenValue(n) = value
    ELSE 0

handle_token_request_wrong(call, token_request) ==
    LET started == [call EXCEPT !.request = token_request]
    IN  IF token_request.grant_type = ""
        THEN Raise(started, InvalidTokenRequest("invalid_request"))
        ELSE IF token_request.grant_type = "authorization_code"
        THEN IF token_request.code = "" \/ token_request.redirect_uri = ""
             THEN Raise(started, InvalidTokenRequest("invalid_request"))
             ELSE [started EXCEPT !.pc = "get_authorization_request_for_code"]
        ELSE IF ~ verify_client_authentication(token_request)
        THEN Raise(started, [kind |-> "InvalidClientAuthentication",
                             oauth_error |-> "invalid_client"])
        ELSE IF token_request.grant_type = "refresh_token"
        THEN IF token_request.refresh_token = ""
             THEN Raise(started, InvalidTokenRequest("invalid_request"))
             ELSE [started EXCEPT !.pc = "use_refresh_token"]
        ELSE Raise(started, InvalidTokenRequest("unsupported_grant_type"))

\* handle_token_request up to the first access to the authorization state:
\* client authentication, the dispatch on grant_type and the verification
\* of the request's schema
handle_token_request(call, token_request) ==
    LET started == [call EXCEPT !.request = token_request]
    IN  IF ~ verify_client_authentication(token_request)
        THEN Raise(started, [kind |-> "InvalidClientAuthentication",
                             oauth_error |-> "invalid_client"])
        ELSE IF token_request.grant_type = ""
        THEN Raise(started, InvalidTokenRequest("invalid_request"))
        ELSE IF token_request.grant_type = "authorization_code"
        THEN IF token_request.code = "" \/ token_request.redirect_uri = ""
             THEN Raise(started, InvalidTokenRequest("invalid_request"))
             ELSE [started EXCEPT !.pc = "get_authorization_request_for_code"]
        ELSE IF token_request.grant_type = "refresh_token"
        THEN IF token_request.refresh_token = ""
             THEN Raise(started, InvalidTokenRequest("invalid_request"))
             ELSE [started EXCEPT !.pc = "use_refresh_token"]
        ELSE Raise(started, InvalidTokenRequest("unsupported_grant_type"))

\* call c of handle_token_request starts, with a request of token_requests
HandleTokenRequestOf(c, token_requests) ==
    /\ calls[c].pc = "idle"
    /\ \A d \in 1..(c - 1) : calls[d].pc # "idle"
    /\ \E token_request \in token_requests :
          calls' = [calls EXCEPT ![c] = handle_token_request(calls[c], token_request)]
    /\ UNCHANGED <<userinfo, auth_req, parse_result, error_url, authz, authorization_codes,
                   access_tokens, refresh_tokens, subject_identifiers, now>>

HandleTokenRequest(c) == HandleTokenRequestOf(c, TokenRequests)

_do_code_exchange_get_request_wrong(call) ==
    LET n == CodeNumber(call.request.code)
        authentication_request == authorization_codes[n].request
    IN  IF n = 0
        THEN Raise(call, InvalidGrant)
        ELSE [call EXCEPT !.authentication_request = authentication_request,
                          !.pc = "get_subject_identifier_for_code"]

\* _do_code_exchange: get_authorization_request_for_code and the comparison
\* of the redirect_uri
_do_code_exchange_get_request(call) ==
    LET n == CodeNumber(call.request.code)
        authentication_request == authorization_codes[n].request
    IN  IF n = 0
        THEN Raise(call, InvalidGrant)
        ELSE IF call.request.redirect_uri # authentication_request.redirect_uri
        THEN Raise(call, InvalidTokenRequest("invalid_request"))
        ELSE [call EXCEPT !.authentication_request = authentication_request,
                          !.pc = "get_subject_identifier_for_code"]

GetAuthorizationRequestForCode(c) ==
    /\ calls[c].pc = "get_authorization_request_for_code"
    /\ calls' = [calls EXCEPT ![c] = _do_code_exchange_get_request(calls[c])]
    /\ UNCHANGED <<userinfo, auth_req, parse_result, error_url, authz, authorization_codes,
                   access_tokens, refresh_tokens, subject_identifiers, now>>

\* _do_code_exchange: get_subject_identifier_for_code and
\* get_user_id_for_subject_identifier
_do_code_exchange_get_sub(call) ==
    LET sub == authorization_codes[CodeNumber(call.request.code)].sub
    IN  [call EXCEPT !.sub = sub,
                     !.user_id = get_user_id_for_subject_identifier(sub),
                     !.pc = "exchange_code_for_token"]

GetSubjectIdentifierForCode(c) ==
    /\ calls[c].pc = "get_subject_identifier_for_code"
    /\ calls' = [calls EXCEPT ![c] = _do_code_exchange_get_sub(calls[c])]
    /\ UNCHANGED <<userinfo, auth_req, parse_result, error_url, authz, authorization_codes,
                   access_tokens, refresh_tokens, subject_identifiers, now>>

\* _do_code_exchange: exchange_code_for_token and the access token added
\* to the response
ExchangeCodeForToken(c) ==
    LET call == calls[c]
        exchanged == exchange_code_for_token(CodeNumber(call.request.code))
        access_token == AccessToken(Len(access_tokens) + 1)
    IN  /\ call.pc = "exchange_code_for_token"
        /\ authorization_codes' = exchanged.authorization_codes
        /\ access_tokens' = exchanged.access_tokens
        /\ calls' = [calls EXCEPT ![c] =
              IF exchanged.raised
              THEN Raise(call, InvalidGrant)
              ELSE [call EXCEPT !.access_token_value = access_token.value,
                                !.response = _add_access_token_to_response(EmptyMap,
                                                                           access_token),
                                !.pc = "create_refresh_token"]]
        /\ UNCHANGED <<userinfo, auth_req, parse_result, error_url, authz, refresh_tokens,
                       subject_identifiers, now>>

\* _do_code_exchange: create_refresh_token(access_token.value)
CreateRefreshToken(c) ==
    LET call == calls[c]
        refresh_token == RefreshTokenValue(Len(refresh_tokens) + 1)
    IN  /\ call.pc = "create_refresh_token"
        /\ refresh_tokens' = create_refresh_token(call.access_token_value)
        /\ calls' = [calls EXCEPT ![c] =
              [call EXCEPT !.response = Update(call.response,
                                               [k \in {"refresh_token"} |-> refresh_token]),
                           !.pc = "create_signed_id_token"]]
        /\ UNCHANGED <<userinfo, auth_req, parse_result, error_url, authz, authorization_codes,
                       access_tokens, subject_identifiers, now>>

\* _do_code_exchange from the resolution of extra_id_token_claims on: the
\* ID Token is minted without an authorization code
_do_code_exchange_id_token(call, extra_id_token_claims, t1, t2) ==
    LET authentication_request == call.authentication_request
        extra == ResolveExtraClaims(extra_id_token_claims, call.user_id,
                                    authentication_request.client_id)
        requested_claims == _get_requested_claims_in(authentication_request, "id_token")
        user_claims == get_claims_for(call.user_id, requested_claims)
        signed == _create_signed_id_token(authentication_request.client_id, call.sub,
                                          user_claims, authentication_request.nonce,
                                          "None", call.access_token_value, extra, t1, t2)
    IN  IF signed.outcome = "TypeError"
        THEN Raise([call EXCEPT !.requested_claims = requested_claims],
                   [kind |-> "TypeError", oauth_error |-> ""])
        ELSE [call EXCEPT !.requested_claims = requested_claims,
                          !.response = Update(call.response,
                                              [k \in {"id_token"} |-> signed.id_token]),
                          !.pc = "done"]

\* the rest of _do_code_exchange for call c, the caller's
\* extra_id_token_claims being one of extras
CreateSignedIdTokenOf(c, extras) ==
    /\ calls[c].pc = "create_signed_id_token"
    /\ \E extra \in extras, t2 \in now..MaxClock :
          /\ calls' = [calls EXCEPT ![c] =
                          _do_code_exchange_id_token(calls[c], extra, now, t2)]
          /\ now' = t2
    /\ UNCHANGED <<userinfo, auth_req, parse_result, error_url, authz, authorization_codes,
                   access_tokens, refresh_tokens, subject_identifiers>>

CreateSignedIdToken(c) == CreateSignedIdTokenOf(c, ExtraIdTokenClaims)

\* AuthorizationState.use_refresh_token(value, scope): raises for a refresh
\* token that is unknown or was used before, and for a scope that is no
\* subset of the scope originally granted; else the refresh token is
\* consumed, a new access token is created and, when the refresh token is
\* rotated, a new refresh token that carries the original grant
use_refresh_token(value, requested_scope, rotate) ==
    LET n == RefreshTokenNumber(value)
        old == access_tokens[AccessTokenNumber(refresh_tokens[n].access_token)]
        granted == refresh_tokens[n].scope
        scope == IF requested_scope # {} THEN requested_scope ELSE granted
        access_token == AccessToken(Len(access_tokens) + 1)
        consumed == [refresh_tokens EXCEPT ![n].used = TRUE]
        unchanged == [error |-> NoTokenError, access_tokens |-> access_tokens,
                      refresh_tokens |-> refresh_tokens,
                      access_token |-> [value |-> "None", type |-> "", expires_in |-> 0],
                      refresh_token |-> "None"]
    IN  IF n = 0 \/ refresh_tokens[n].used
        THEN [unchanged EXCEPT !.error = [kind |-> "InvalidRefreshToken",
                                          oauth_error |-> "invalid_grant"]]
        ELSE IF ~ (scope \subseteq granted)
        THEN [unchanged EXCEPT !.error = [kind |-> "InvalidScope",
                                          oauth_error |-> "invalid_scope"]]
        ELSE [error |-> NoTokenError,
              access_tokens |-> create_access_token(old.request, old.sub, scope),
              refresh_tokens |-> IF rotate
                                 THEN Append(consumed,
                                             [access_token |-> access_token.value,
                                              scope |-> granted, used |-> FALSE])
                                 ELSE consumed,
              access_token |-> access_token,
              refresh_token |-> IF rotate THEN RefreshTokenValue(Len(refresh_tokens) + 1)
                                          ELSE "None"]

_do_token_refresh_wrong(call, used) ==
    LET response == _add_access_token_to_response(EmptyMap, used.access_token)
    IN  [call EXCEPT !.access_token_value = used.access_token.value,
                     !.response = response,
                     !.pc = "done"]

\* _do_token_refresh: the new access token and, if one is returned, the new
\* refresh token
_do_token_refresh(call, used) ==
    LET response == _add_access_token_to_response(EmptyMap, used.access_token)
    IN  IF used.error # NoTokenError
        THEN Raise(call, used.error)
        ELSE [call EXCEPT !.access_token_value = used.access_token.value,
                          !.response = IF used.refresh_token # "None"
                                       THEN Update(response, [k \in {"refresh_token"} |->
                                                                used.refresh_token])
                                       ELSE response,
                          !.pc = "done"]

UseRefreshToken(c) ==
    /\ calls[c].pc = "use_refresh_token"
    /\ \E rotate \in BOOLEAN :
          LET used == use_refresh_token(calls[c].request.refresh_token,
                                        calls[c].request.scope, rotate)
          IN  /\ access_tokens' = used.access_tokens
              /\ refresh_tokens' = used.refresh_tokens
              /\ calls' = [calls EXCEPT ![c] = _do_token_refresh(calls[c], used)]
    /\ UNCHANGED <<userinfo, auth_req, parse_result, error_url, authz, authorization_codes,
                   subject_identifiers, now>>

\* the validated authentication requests that lead to the token endpoint
TokenFlowRequests ==
    {r \in [client_id : {"c1", "c2"},
            redirect_uri : {"https://rp1/cb", "https://rp2/cb"},
            response_type : {<<"code">>, <<"code", "id_token">>, <<"code", "token">>},
            scope : {{"openid", "profile"}},
            state : {""},
            nonce : {"", "n"},
            claims : {EmptyMap, [m \in {"id_token"} |-> [c \in {"name"} |-> Null]]}] :
        parse_authentication_request(r).outcome = "returned"}

\* authorize for a user who has logged in, as the token flow starts; every
\* request of the token flow asks for a code
AuthorizeTokenFlow ==
    /\ Len(authorization_codes) < MaxCodes
    /\ \E request \in TokenFlowRequests, user_id \in Users :
          Authorize(request, user_id, [kind |-> "None", map |-> EmptyMap], now)
    /\ UNCHANGED <<auth_req, parse_result, error_url>>

InitToken ==
    /\ auth_req = NoRequest
    /\ parse_result = NoParse
    /\ error_url = NoErrorUrl
    /\ authz = NoAuthz
    /\ authorization_codes = <<>>
    /\ access_tokens = <<>>
    /\ refresh_tokens = <<>>
    /\ subject_identifiers = {}
    /\ now = 0
    /\ calls = [c \in Calls |-> IdleCall]
    /\ userinfo = NoUserinfo

NextToken ==
    \/ AuthorizeTokenFlow
    \/ \E c \in Calls : HandleTokenRequest(c)
    \/ \E c \in Calls : GetAuthorizationRequestForCode(c)
    \/ \E c \in Calls : GetSubjectIdentifierForCode(c)
    \/ \E c \in Calls : ExchangeCodeForToken(c)
    \/ \E c \in Calls : CreateRefreshToken(c)
    \/ \E c \in Calls : CreateSignedIdToken(c)
    \/ \E c \in Calls : UseRefreshToken(c)

SpecToken == InitToken /\ [][NextToken]_vars

(***************************************************************************)
(* The userinfo endpoint, with the authorization and token endpoints that  *)
(* issue the access tokens it is presented.                                *)
(***************************************************************************)
\* the bearer tokens a client can present: none, an issued access token or
\* one that was never issued
PresentableAccessTokens ==
    {""} \cup {AccessTokenValue(n) : n \in 1..Len(access_tokens)} \cup {"bogus"}

\* AuthorizationState.introspect_access_token(value): an expired token is
\* not active; for a value that was never issued the authorization state
\* either reports active=false or raises InvalidAccessToken
introspect_access_token(value, unknown_raises) ==
    LET n == AccessTokenNumber(value)
    IN  IF n = 0
        THEN [raised |-> unknown_raises, active |-> FALSE, scope |-> {}, sub |-> ""]
        ELSE IF access_tokens[n].expired
        THEN [raised |-> FALSE, active |-> FALSE, scope |-> {}, sub |-> ""]
        ELSE [raised |-> FALSE, active |-> TRUE, scope |-> access_tokens[n].scope,
              sub |-> access_tokens[n].sub]

\* AuthorizationState.get_authorization_request_for_access_token(value)
get_authorization_request_for_access_token(value) ==
    access_tokens[AccessTokenNumber(value)].request

UserinfoRequestedClaims_wrong(scope, authentication_request) ==
    Update(scope2claims(authentication_request.scope),
           _get_requested_claims_in(authentication_request, "userinfo"))

\* the claims handle_userinfo_request asks the user-info source for
UserinfoRequestedClaims(scope, authentication_request) ==
    Update(scope2claims(scope), _get_requested_claims_in(authentication_request, "userinfo"))

handle_userinfo_request_wrong(bearer_token, unknown_raises) ==
    LET introspection == introspect_access_token(bearer_token, unknown_raises)
        failed == [NoUserinfo EXCEPT !.bearer_token = bearer_token]
        user_id == get_user_id_for_subject_identifier(introspection.sub)
        authentication_request == get_authorization_request_for_access_token(bearer_token)
        requested_claims == UserinfoRequestedClaims(introspection.scope,
                                                    authentication_request)
        user_claims == get_claims_for(user_id, requested_claims)
    IN  IF bearer_token = ""
        THEN [failed EXCEPT !.status = "BearerTokenError"]
        ELSE IF introspection.raised
        THEN [failed EXCEPT !.status = "InvalidAccessToken"]
        ELSE IF ~ introspection.active
        THEN [failed EXCEPT !.status = "InvalidUserinfoRequest"]
        ELSE [status |-> "returned", bearer_token |-> bearer_token, active |-> TRUE,
              requested_claims |-> requested_claims,
              response |-> Update([k \in {"sub"} |-> user_id], user_claims)]

handle_userinfo_request_expired(bearer_token, unknown_raises) ==
    LET n == AccessTokenNumber(bearer_token)
        failed == [NoUserinfo EXCEPT !.bearer_token = bearer_token]
        user_id == get_user_id_for_subject_identifier(access_tokens[n].sub)
        authentication_request == get_authorization_request_for_access_token(bearer_token)
        requested_claims == UserinfoRequestedClaims(access_tokens[n].scope,
                                                    authentication_request)
        user_claims == get_claims_for(user_id, requested_claims)
    IN  IF bearer_token = ""
        THEN [failed EXCEPT !.status = "BearerTokenError"]
        ELSE IF n = 0
        THEN [failed EXCEPT !.status = "InvalidUserinfoRequest"]
        ELSE [status |-> "returned", bearer_token |-> bearer_token, active |-> TRUE,
              requested_claims |-> requested_claims,
              response |-> Update([k \in {"sub"} |-> access_tokens[n].sub], user_claims)]

\* handle_userinfo_request: [status, bearer_token, active, requested_claims,
\* response]; OpenIDSchema(sub=..., **user_claims) raises TypeError for a
\* user claim named sub
handle_userinfo_request(bearer_token, unknown_raises) ==
    LET introspection == introspect_access_token(bearer_token, unknown_raises)
        failed == [NoUserinfo EXCEPT !.bearer_token = bearer_token]
        user_id == get_user_id_for_subject_identifier(introspection.sub)
        authentication_request == get_authorization_request_for_access_token(bearer_token)
        requested_claims == UserinfoRequestedClaims(introspection.scope,
                                                    authentication_request)
        user_claims == get_claims_for(user_id, requested_claims)
    IN  IF bearer_token = ""
        THEN [failed EXCEPT !.status = "BearerTokenError"]
        ELSE IF introspection.raised
        THEN [failed EXCEPT !.status = "InvalidAccessToken"]
        ELSE IF ~ introspection.active
        THEN [failed EXCEPT !.status = "InvalidUserinfoRequest"]
        ELSE IF "sub" \in DOMAIN user_claims
        THEN [failed EXCEPT !.status = "TypeError", !.active = TRUE,
                            !.requested_claims = requested_claims]
        ELSE [status |-> "returned", bearer_token |-> bearer_token, active |-> TRUE,
              requested_claims |-> requested_claims,
              response |-> Update([k \in {"sub"} |-> introspection.sub], user_claims)]

HandleUserinfoRequest ==
    /\ \E bearer_token \in PresentableAccessTokens, unknown_raises \in BOOLEAN :
          userinfo' = handle_userinfo_request(bearer_token, unknown_raises)
    /\ UNCHANGED <<auth_req, parse_result, error_url, authz, authorization_codes,
                   access_tokens, refresh_tokens, subject_identifiers, now, calls>>

\* the lifetime of an access token passes: the tokens have the same lifetime,
\* so the oldest token that has not expired is the next to expire
ExpireAccessToken ==
    /\ \E n \in 1..Len(access_tokens) :
          /\ ~ access_tokens[n].expired
          /\ \A k \in 1..(n - 1) : access_tokens[k].expired
          /\ access_tokens' = [access_tokens EXCEPT ![n].expired = TRUE]
    /\ UNCHANGED <<auth_req, parse_result, error_url, authz, authorization_codes,
                   refresh_tokens, subject_identifiers, now, calls, userinfo>>

\* the validated authentication requests whose response carries a code or
\* an access token
UserinfoFlowRequests ==
    {r \in [client_id : {"c1", "c2"},
            redirect_uri : {"https://rp1/cb", "https://rp2/cb"},
            response_type : {<<"code">>, <<"id_token", "token">>},
            scope : {{"openid", "profile"}},
            state : {""},
            nonce : {"n"},
            claims : {EmptyMap, [m \in {"userinfo"} |-> [c \in {"email"} |-> Null]]}] :
        parse_authentication_request(r).outcome = "returned"}

AuthorizeUserinfoFlow ==
    /\ Len(authorization_codes) < MaxCodes
    /\ Len(authorization_codes) + Len(access_tokens) < MaxAuthorizations
    /\ \E request \in UserinfoFlowRequests, user_id \in Users :
          Authorize(request, user_id, [kind |-> "None", map |-> EmptyMap], now)
    /\ UNCHANGED <<auth_req, parse_result, error_url>>

\* the token requests of the client a code or a refresh token was issued to
UserinfoFlowTokenRequests ==
    {[client_id |-> authorization_codes[n].request.client_id,
      client_secret |-> ClientSecrets[authorization_codes[n].request.client_id],
      grant_type |-> "authorization_code", code |-> CodeValue(n),
      redirect_uri |-> authorization_codes[n].request.redirect_uri,
      refresh_token |-> "", scope |-> {}] : n \in 1..Len(authorization_codes)}
    \cup
    {LET cl == access_tokens[AccessTokenNumber(refresh_tokens[n].access_token)]
                    .request.client_id
     IN  [client_id |-> cl, client_secret |-> ClientSecrets[cl],
          grant_type |-> "refresh_token", code |-> "", redirect_uri |-> "",
          refresh_token |-> RefreshTokenValue(n), scope |-> sc] :
        n \in 1..Len(refresh_tokens), sc \in {{}, {"openid"}}}

\* the extra_id_token_claims of the callers of the userinfo flow
UserinfoFlowExtraClaims ==
    {extra \in ExtraIdTokenClaims : extra.kind \in {"None", "callable"}}

\* the token endpoint serving one call after the other
HandleNextTokenRequest(c) ==
    /\ \A d \in 1..(c - 1) : calls[d].pc = "done"
    /\ HandleTokenRequestOf(c, UserinfoFlowTokenRequests)

\* the clock has reached its last value, so that it stands still
InitUserinfo ==
    /\ auth_req = NoRequest
    /\ parse_result = NoParse
    /\ error_url = NoErrorUrl
    /\ authz = NoAuthz
    /\ authorization_codes = <<>>
    /\ access_tokens = <<>>
    /\ refresh_tokens = <<>>
    /\ subject_identifiers = {}
    /\ now = MaxClock
    /\ calls = [c \in Calls |-> IdleCall]
    /\ userinfo = NoUserinfo

NextUserinfo ==
    \/ AuthorizeUserinfoFlow
    \/ \E c \in Calls : HandleNextTokenRequest(c)
    \/ \E c \in Calls : GetAuthorizationRequestForCode(c)
    \/ \E c \in Calls : GetSubjectIdentifierForCode(c)
    \/ \E c \in Calls : ExchangeCodeForToken(c)
    \/ \E c \in Calls : CreateRefreshToken(c)
    \/ \E c \in Calls : CreateSignedIdTokenOf(c, UserinfoFlowExtraClaims)
    \/ \E c \in Calls : UseRefreshToken(c)
    \/ ExpireAccessToken
    \/ HandleUserinfoRequest

SpecUserinfo == InitUserinfo /\ [][NextUserinfo]_vars

(***************************************************************************)
(* Properties of the authorization endpoint (checked under Spec).          *)
(***************************************************************************)
ResponseTypeSet(request) == Range(request.response_type)

RegisteredFor(request) ==
    /\ request.client_id \in DOMAIN clients
    /\ request.redirect_uri \in clients[request.client_id].redirect_uris

\* C1: every request parse_authentication_request returns has a client_id of
\* the registry, a redirect_uri registered for that client, and a
\* response-type set equal to one of the client's registered sets.
C1_ValidatedRequestIsRegistered ==
    parse_result.outcome = "returned" =>
        LET r == parse_result.auth_req
        IN  /\ r.client_id \in DOMAIN clients
            /\ r.redirect_uri \in clients[r.client_id].redirect_uris
            /\ \E rt \in clients[r.client_id].response_types :
                  ResponseTypeSet(r) = Range(rt)

\* a request is returned whose response_type list is none of the registered
\* lists, only a reordering of one
C1_Witness ==
    /\ parse_result.outcome = "returned"
    /\ parse_result.auth_req.client_id = "c1"
    /\ parse_result.auth_req.response_type = <<"token", "id_token">>

\* C2: to_error_url returns a redirect URL only for a request that has a
\* redirect_uri registered for its client and an error that has an
\* oauth_error; for every other error of the pipeline (an unknown client_id
\* and a schema failure included) what it returns is None, not a URL.
C2_ErrorUrlOnlyToRegisteredRedirectUri ==
    error_url.outcome = "url" =>
        LET e == parse_result.error
        IN  /\ Has(e.request, "redirect_uri")
            /\ e.oauth_error # "None"
            /\ RegisteredFor(e.request)

\* C3: a schema-valid request of a known client with a redirect_uri that is
\* not registered is rejected with an error that has no oauth_error, and
\* to_error_url returns None for it.
C3_UnregisteredRedirectUriIsNotRedirected ==
    LET r == auth_req
    IN  ( /\ parse_result.outcome # "none"
          /\ Has(r, "response_type") /\ Has(r, "redirect_uri") /\ Has(r, "scope")
          /\ "openid" \in r.scope
          /\ ({"token", "id_token"} \cap ResponseTypeSet(r) # {} => Has(r, "nonce"))
          /\ r.client_id \in DOMAIN clients
          /\ r.redirect_uri \notin clients[r.client_id].redirect_uris )
        => /\ parse_result.outcome = "InvalidAuthenticationRequest"
           /\ parse_result.error.oauth_error = "None"
           /\ error_url.outcome \in {"none", "None"}

C3_Witness ==
    /\ auth_req.client_id = "c1"
    /\ auth_req.redirect_uri = "https://evil/cb"
    /\ auth_req.response_type = <<"code">>
    /\ auth_req.scope = {"openid"}
    /\ parse_result.outcome = "InvalidAuthenticationRequest"
    /\ error_url.outcome = "None"

\* C4: the response is query encoded exactly when the request's
\* response-type set is {code} and fragment encoded otherwise, for the
\* returned request and for the error redirect alike.
C4_QueryEncodingExactlyForCodeSet ==
    /\ parse_result.outcome = "returned" =>
          (should_fragment_encode(parse_result.auth_req)
              <=> ResponseTypeSet(parse_result.auth_req) # {"code"})
    /\ error_url.outcome = "url" =>
          ((error_url.url.separator = "#")
              <=> ResponseTypeSet(parse_result.error.request) # {"code"})

\* C5: the response authorize returns holds code iff code is requested,
\* access_token, token_type and expires_in of the issued access token iff
\* token is requested, id_token iff id_token is requested, and state, with
\* the request's value, iff the request has a state.
C5_ResponseFollowsResponseType ==
    authz.status = "returned" =>
        LET r == authz.request
            keys == DOMAIN authz.response
            issued == AccessToken(Len(access_tokens))
        IN  /\ "code" \in keys <=> "code" \in ResponseTypeSet(r)
            /\ "code" \in keys =>
                  /\ authz.response["code"] = CodeValue(Len(authorization_codes))
                  /\ authorization_codes[Len(authorization_codes)].request = r
            /\ \A k \in {"access_token", "token_type", "expires_in"} :
                  k \in keys <=> "token" \in ResponseTypeSet(r)
            /\ "token" \in ResponseTypeSet(r) =>
                  /\ authz.response["access_token"] = issued.value
                  /\ authz.response["token_type"] = issued.type
                  /\ authz.response["expires_in"] = issued.expires_in
                  /\ access_tokens[Len(access_tokens)].request = r
            /\ "id_token" \in keys <=> "id_token" \in ResponseTypeSet(r)
            /\ "state" \in keys <=> r.state # ""
            /\ "state" \in keys => authz.response["state"] = r.state

C5_Witness ==
    /\ authz.status = "returned"
    /\ authz.request.response_type = <<"code", "id_token", "token">>
    /\ authz.request.state = "xyz"
    /\ DOMAIN authz.response =
          {"code", "access_token", "token_type", "expires_in", "id_token", "state"}

\* C7: in an ID Token issued by authorize, c_hash is present iff a code was
\* issued in the same response and is then the left hash of that code, and
\* at_hash is present iff an access token was issued in the same response
\* and is then the left hash of that access token value.
C7_HashClaimsBindIssuedValues ==
    (authz.status = "returned" /\ "id_token" \in DOMAIN authz.response) =>
        LET t == authz.response["id_token"]
            hash_alg == HashAlg(SigningAlg(authz.request.client_id))
        IN  /\ "c_hash" \in DOMAIN t.claims <=> "code" \in DOMAIN authz.response
            /\ "c_hash" \in DOMAIN t.claims =>
                  t.claims["c_hash"] = left_hash(authz.response["code"], hash_alg)
            /\ "at_hash" \in DOMAIN t.claims <=> "access_token" \in DOMAIN authz.response
            /\ "at_hash" \in DOMAIN t.claims =>
                  t.claims["at_hash"] = left_hash(authz.response["access_token"], hash_alg)

\* C8: in an ID Token issued by authorize, exp minus iat is the configured
\* lifetime.
C8_LifetimeIsExpMinusIat ==
    (authz.status = "returned" /\ "id_token" \in DOMAIN authz.response) =>
        LET t == authz.response["id_token"]
        IN  t.exp - t.iat = id_token_lifetime

(***************************************************************************)
(* Properties of the token endpoint (checked under SpecToken).             *)
(***************************************************************************)
\* the calls that returned a token response
Returned(c) == calls[c].pc = "done" /\ calls[c].error = NoTokenError

\* the code exchanges that returned
ReturnedExchange(c) == Returned(c) /\ calls[c].request.grant_type = "authorization_code"

\* C6: every ID Token issued by authorize or by the code exchange has the
\* configured issuer as iss, the client_id of the originating authentication
\* request as aud, the derived subject identifier as sub, and a nonce iff
\* that request has one, with its value.
C6_IdTokenIdentityClaims ==
    /\ (authz.status = "returned" /\ "id_token" \in DOMAIN authz.response) =>
          LET t == authz.response["id_token"]
              r == authz.request
          IN  /\ t.iss = "https://op"
              /\ t.aud = r.client_id
              /\ t.sub = authz.sub
              /\ "nonce" \in DOMAIN t.claims <=> r.nonce # ""
              /\ "nonce" \in DOMAIN t.claims => t.claims["nonce"] = r.nonce
    /\ \A c \in Calls :
          (Returned(c) /\ "id_token" \in DOMAIN calls[c].response) =>
              LET t == calls[c].response["id_token"]
                  code == authorization_codes[CodeNumber(calls[c].request.code)]
              IN  /\ t.iss = "https://op"
                  /\ t.aud = code.request.client_id
                  /\ t.sub = code.sub
                  /\ "nonce" \in DOMAIN t.claims <=> code.request.nonce # ""
                  /\ "nonce" \in DOMAIN t.claims => t.claims["nonce"] = code.request.nonce

\* the calls that present code number n with the credentials of a client
\* and the redirect_uri the code was issued for
Presenting(n) ==
    {c \in Calls :
        /\ calls[c].pc # "idle"
        /\ calls[c].request.grant_type = "authorization_code"
        /\ calls[c].request.code = CodeValue(n)
        /\ verify_client_authentication(calls[c].request)
        /\ calls[c].request.redirect_uri = authorization_codes[n].request.redirect_uri}

\* C9: when two or more calls present the same code, in any interleaving,
\* exactly one of them returns a token response and every other one fails
\* with an invalid-grant error and returns nothing.
C9_ExactlyOneExchangeReturns ==
    \A n \in 1..Len(authorization_codes) :
        ( /\ Cardinality(Presenting(n)) >= 2
          /\ \A c \in Presenting(n) : calls[c].pc = "done" )
        => \E w \in Presenting(n) :
              /\ Returned(w)
              /\ "access_token" \in DOMAIN calls[w].response
              /\ \A c \in Presenting(n) \ {w} :
                    /\ calls[c].error = InvalidGrant
                    /\ calls[c].response = EmptyMap

\* C10: a code exchange that returns holds access_token, token_type,
\* expires_in, refresh_token and id_token; the refresh token was created for
\* the returned access token; the ID Token has at_hash over that access
\* token, no c_hash, and a nonce iff the original request has one.
C10_ExchangeResponse ==
    \A c \in Calls :
        ReturnedExchange(c) =>
            LET response == calls[c].response
                r == calls[c].authentication_request
                t == response["id_token"]
                hash_alg == HashAlg(SigningAlg(r.client_id))
            IN  /\ DOMAIN response = {"access_token", "token_type", "expires_in",
                                      "refresh_token", "id_token"}
                /\ refresh_tokens[RefreshTokenNumber(response["refresh_token"])].access_token
                      = response["access_token"]
                /\ "at_hash" \in DOMAIN t.claims
                /\ t.claims["at_hash"] = left_hash(response["access_token"], hash_alg)
                /\ "c_hash" \notin DOMAIN t.claims
                /\ "nonce" \in DOMAIN t.claims <=> r.nonce # ""
                /\ "nonce" \in DOMAIN t.claims => t.claims["nonce"] = r.nonce

\* a call that ended by raising: nothing was returned and no token was issued
\* to it
Failed(c, kind, oauth_error) ==
    /\ calls[c].pc = "done"
    /\ calls[c].error.kind = kind
    /\ calls[c].error.oauth_error = oauth_error
    /\ calls[c].response = EmptyMap
    /\ calls[c].access_token_value = "None"

SupportedGrantTypes == {"authorization_code", "refresh_token"}

\* what a started call has done, by its credentials and grant_type
C11_Dispatch ==
    \A c \in Calls :
        calls[c].pc # "idle" =>
            LET r == calls[c].request
                authenticated ==
                    /\ r.client_id \in DOMAIN ClientSecrets
                    /\ r.client_secret = ClientSecrets[r.client_id]
            IN  IF ~ authenticated
                THEN Failed(c, "InvalidClientAuthentication", "invalid_client")
                ELSE IF r.grant_type = ""
                THEN Failed(c, "InvalidTokenRequest", "invalid_request")
                ELSE r.grant_type \notin SupportedGrantTypes =>
                        Failed(c, "InvalidTokenRequest", "unsupported_grant_type")

\* a step of the token endpoint that changes the authorization state is a
\* step of an authenticated call with a supported grant_type
C11_GrantHandlerStep ==
    (/\ calls' # calls
     /\ \/ authorization_codes' # authorization_codes
        \/ access_tokens' # access_tokens
        \/ refresh_tokens' # refresh_tokens)
    => \E c \in Calls :
          /\ calls'[c] # calls[c]
          /\ verify_client_authentication(calls[c].request)
          /\ calls[c].request.grant_type \in SupportedGrantTypes

\* C11: handle_token_request authenticates the client first and propagates
\* the failure; then a missing grant_type raises InvalidTokenRequest with
\* invalid_request and a grant_type other than authorization_code and
\* refresh_token raises it with unsupported_grant_type; so no code is
\* consumed and no token is issued by a call unless the client authenticated
\* and the grant_type is one of the two supported values.
C11_AuthenticationBeforeDispatch ==
    [] C11_Dispatch /\ [][C11_GrantHandlerStep]_vars

\* a call with wrong credentials presented an issued, unused code and failed,
\* and a call with an unknown grant_type failed after it authenticated
C11_Witness ==
    /\ Len(authorization_codes) = 1
    /\ ~ authorization_codes[1].used
    /\ calls[1].request.client_secret = "bad"
    /\ calls[1].request.grant_type = "authorization_code"
    /\ calls[1].request.code = CodeValue(1)
    /\ Failed(1, "InvalidClientAuthentication", "invalid_client")
    /\ calls[2].request.client_secret = "s1"
    /\ calls[2].request.grant_type = "password"
    /\ Failed(2, "InvalidTokenRequest", "unsupported_grant_type")

\* the calls that reached the refresh of a refresh token that was issued and
\* not consumed before
Refreshed(c) ==
    /\ calls[c].pc = "done"
    /\ verify_client_authentication(calls[c].request)
    /\ calls[c].request.grant_type = "refresh_token"
    /\ RefreshTokenNumber(calls[c].request.refresh_token) # 0
    /\ calls[c].error.kind # "InvalidRefreshToken"

\* the refresh token call c presented, with the scope originally granted
RefreshedToken(c) ==
    refresh_tokens[RefreshTokenNumber(calls[c].request.refresh_token)]

\* C12: a refresh whose scope is a subset of the granted scope returns a new
\* access token with that scope, a refresh without scope returns one with
\* the granted scope, and a refresh whose scope is not a subset of the
\* granted scope fails with invalid_scope and returns no access token.
C12_RefreshNarrowing ==
    \A c \in Calls :
        Refreshed(c) =>
            LET requested == calls[c].request.scope
                granted == RefreshedToken(c).scope
                new == AccessTokenNumber(calls[c].access_token_value)
            IN  IF requested \subseteq granted
                THEN /\ calls[c].error = NoTokenError
                     /\ new # 0
                     /\ calls[c].response["access_token"] = AccessTokenValue(new)
                     /\ access_tokens[new].scope =
                            IF requested = {} THEN granted ELSE requested
                ELSE Failed(c, "InvalidScope", "invalid_scope")

\* a refresh narrowed the scope {openid, profile} of the exchanged code to
\* {openid}
C12_Witness ==
    /\ Refreshed(2)
    /\ RefreshedToken(2).scope = {"openid", "profile"}
    /\ calls[2].request.scope = {"openid"}
    /\ calls[2].error = NoTokenError
    /\ access_tokens[AccessTokenNumber(calls[2].access_token_value)].scope = {"openid"}

(***************************************************************************)
(* Properties of the userinfo endpoint (checked under SpecUserinfo).       *)
(***************************************************************************)
\* the calls that refreshed an access token into access token number n
RefreshesInto(n) ==
    {c \in Calls : /\ calls[c].request.grant_type = "refresh_token"
                   /\ calls[c].error = NoTokenError
                   /\ calls[c].access_token_value = AccessTokenValue(n)}

\* the access token issued by authorize or by a code exchange that access
\* token number n descends from by refreshes
RECURSIVE OriginalToken(_)
OriginalToken(n) ==
    IF RefreshesInto(n) = {}
    THEN n
    ELSE LET c == CHOOSE c \in RefreshesInto(n) : TRUE
             refreshed == refresh_tokens[RefreshTokenNumber(calls[c].request.refresh_token)]
         IN  OriginalToken(AccessTokenNumber(refreshed.access_token))

\* the code exchanges that returned access token number n
ExchangesInto(n) ==
    {c \in Calls : /\ calls[c].request.grant_type = "authorization_code"
                   /\ calls[c].access_token_value = AccessTokenValue(n)}

\* the ID Tokens at hand that were issued for the authorization of access
\* token number n: the one of the authorization response that carried the
\* token or the exchanged code, and the one of the code exchange
IdTokensOf(n) ==
    LET original == OriginalToken(n)
        authorized ==
            /\ authz.status = "returned"
            /\ "id_token" \in DOMAIN authz.response
            /\ \/ authz.access_token_value = AccessTokenValue(original)
               \/ \E c \in ExchangesInto(original) : calls[c].request.code = authz.authz_code
    IN  (IF authorized THEN {authz.response["id_token"]} ELSE {})
        \cup {calls[c].response["id_token"] :
                c \in {d \in ExchangesInto(original) : "id_token" \in DOMAIN calls[d].response}}

\* C13: the sub that handle_userinfo_request returns for an active access
\* token equals the sub of every ID Token issued for the authorization the
\* token belongs to, in the authorization response or in the code exchange.
C13_UserinfoSubIsIdTokenSub ==
    userinfo.status = "returned" =>
        \A id_token \in IdTokensOf(AccessTokenNumber(userinfo.bearer_token)) :
            userinfo.response["sub"] = id_token.sub

\* two users were authorized, and the userinfo request presented an access
\* token refreshed from the token of a code exchange that issued an ID Token
C13_Witness ==
    /\ Cardinality({p.user_id : p \in subject_identifiers}) = 2
    /\ userinfo.status = "returned"
    /\ LET n == AccessTokenNumber(userinfo.bearer_token)
       IN  /\ OriginalToken(n) # n
           /\ n # 1
           /\ IdTokensOf(n) # {}
           /\ userinfo.response["sub"] # access_tokens[1].sub

\* the userinfo request presented an access token that was active
UserinfoForActiveToken ==
    /\ userinfo.status \in {"returned", "TypeError"}
    /\ AccessTokenNumber(userinfo.bearer_token) # 0

\* C14: for an active token the claim names handle_userinfo_request asks the
\* user-info source for are exactly the claims derived from the scope of the
\* access token together with the names in claims.userinfo of the
\* authorization request the token originates from.
C14_UserinfoRequestedClaims ==
    UserinfoForActiveToken =>
        LET token == access_tokens[AccessTokenNumber(userinfo.bearer_token)]
            from_scope == DOMAIN scope2claims(token.scope)
            from_claims == IF "userinfo" \in DOMAIN token.request.claims
                           THEN DOMAIN token.request.claims["userinfo"]
                           ELSE {}
        IN  DOMAIN userinfo.requested_claims = from_scope \cup from_claims

\* the token was narrowed to the scope openid by a refresh and its request
\* asked for email in claims.userinfo
C14_Witness ==
    /\ UserinfoForActiveToken
    /\ LET token == access_tokens[AccessTokenNumber(userinfo.bearer_token)]
       IN  /\ token.scope = {"openid"}
           /\ token.request.scope = {"openid", "profile"}
           /\ "userinfo" \in DOMAIN token.request.claims
    /\ DOMAIN userinfo.requested_claims = {"sub", "email"}

\* nothing is returned by a userinfo request that raised, and a request that
\* raised InvalidUserinfoRequest fetched no claims
C15_FailedUserinfo ==
    /\ userinfo.status # "returned" => userinfo.response = EmptyMap
    /\ userinfo.status = "InvalidUserinfoRequest" =>
          /\ ~ userinfo.active
          /\ userinfo.requested_claims = EmptyMap

\* a userinfo request that presents an access token which has expired or
\* was never issued raises, fetches no claims and returns nothing
C15_InactiveTokenStep ==
    LET n == AccessTokenNumber(userinfo'.bearer_token)
    IN  (/\ userinfo' # userinfo
         /\ userinfo'.bearer_token # ""
         /\ n = 0 \/ access_tokens[n].expired)
        => /\ userinfo'.status \in
                 {"InvalidUserinfoRequest"} \cup (IF n = 0 THEN {"InvalidAccessToken"} ELSE {})
           /\ userinfo'.requested_claims = EmptyMap
           /\ userinfo'.response = EmptyMap

\* C15: handle_userinfo_request raises InvalidUserinfoRequest whenever the
\* introspection of the presented access token reports it inactive; then no
\* user claims are fetched and nothing is returned, so an expired or unknown
\* token yields no claims in any sequence of calls.
C15_InactiveTokenYieldsNothing ==
    [] C15_FailedUserinfo /\ [][C15_InactiveTokenStep]_vars

\* a userinfo request presented an issued access token that had expired
C15_Witness ==
    /\ userinfo.status = "InvalidUserinfoRequest"
    /\ AccessTokenNumber(userinfo.bearer_token) # 0
    /\ access_tokens[AccessTokenNumber(userinfo.bearer_token)].expired
    /\ \E n \in 1..Len(access_tokens) : ~ access_tokens[n].expired

(***************************************************************************)
(* Further properties of the authorization endpoint (checked under Spec).  *)
(***************************************************************************)
\* the subject type of a client: the registered one, else the first one the
\* provider supports
SubjectTypeOf(client_id) ==
    IF clients[client_id].subject_type # ""
    THEN clients[client_id].subject_type
    ELSE configuration_information.subject_types_supported[1]

\* C16: the sub authorize derives is the subject identifier for the client's
\* subject type (else the first supported one), the user and the host of the
\* request's redirect_uri.  Compared with the sub authorize derives for the
\* same user in a request of any registered client with any of its redirect
\* URIs: it differs when both clients are pairwise and the hosts of the
\* redirect URIs differ, it is the same when the request is one of the same
\* client, and it is the same when both clients are public.
C16_SubjectIdentifierDerivation ==
    authz.status = "returned" =>
        LET r == authz.request
            subject_type == SubjectTypeOf(r.client_id)
        IN  /\ authz.sub = get_subject_identifier(subject_type, authz.user_id,
                                                  Netloc(r.redirect_uri))
            /\ \A client_id \in DOMAIN clients :
                  \A redirect_uri \in clients[client_id].redirect_uris :
                     LET sub == _create_subject_identifier(authz.user_id, client_id,
                                                           redirect_uri)
                     IN  /\ (/\ subject_type = "pairwise"
                              /\ SubjectTypeOf(client_id) = "pairwise"
                              /\ client_id # r.client_id
                              /\ Netloc(redirect_uri) # Netloc(r.redirect_uri))
                             => sub # authz.sub
                         /\ client_id = r.client_id => sub = authz.sub
                         /\ (subject_type = "public" /\ SubjectTypeOf(client_id) = "public")
                             => sub = authz.sub

\* C17: authorize raises AuthorizationError when the claims parameter asks
\* for a sub under both id_token and userinfo and the two differ, and when
\* the requested sub (that of id_token if set, else that of userinfo) is set
\* and differs from the subject identifier derived for the user and client.
C17_SubjectMismatchRaises ==
    authz.status # "none" =>
        LET requested_id_token_sub == RequestedSub(authz.request, "id_token")
            requested_userinfo_sub == RequestedSub(authz.request, "userinfo")
            requested_sub == IF requested_id_token_sub # Null THEN requested_id_token_sub
                                                              ELSE requested_userinfo_sub
            both_differ == /\ requested_id_token_sub # Null
                           /\ requested_userinfo_sub # Null
                           /\ requested_id_token_sub.value # requested_userinfo_sub.value
            mismatch == /\ requested_sub # Null
                        /\ requested_sub.value # authz.sub
        IN  (both_differ \/ mismatch) => authz.status = "AuthorizationError"

\* AuthorizationError was raised for a request whose id_token sub is the
\* derived subject identifier and whose userinfo sub is another one
C17_Witness ==
    /\ authz.status = "AuthorizationError"
    /\ RequestedSub(authz.request, "id_token") = ClaimBare(authz.sub)
    /\ RequestedSub(authz.request, "userinfo") = ClaimBare("other")

\* AuthorizationError was raised for a request whose only requested sub, under
\* userinfo, is not the derived one
C17_WitnessUserinfo ==
    /\ authz.status = "AuthorizationError"
    /\ RequestedSub(authz.request, "id_token") = Null
    /\ RequestedSub(authz.request, "userinfo") = ClaimBare("public(u1)")
    /\ authz.sub = "public(u2)"

\* the error of the earliest failing validator in the order schema, client
\* known, redirect_uri registered, response_type registered, userinfo-claims
\* and response-type compatibility, scope support; the validators after the
\* first failing one are not evaluated
EarliestFailure(r) ==
    IF _authorization_request_verify(r) # NoError
    THEN _authorization_request_verify(r)
    ELSE IF _client_id_is_known(r) # NoError
    THEN _client_id_is_known(r)
    ELSE IF _redirect_uri_is_in_registered_redirect_uris(r) # NoError
    THEN _redirect_uri_is_in_registered_redirect_uris(r)
    ELSE IF _response_type_is_in_registered_response_types(r) # NoError
    THEN _response_type_is_in_registered_response_types(r)
    ELSE IF _userinfo_claims_only_specified_when_access_token_is_issued(r) # NoError
    THEN _userinfo_claims_only_specified_when_access_token_is_issued(r)
    ELSE _requested_scope_is_supported(r)

\* C18: the validators run in the fixed order schema, client known,
\* redirect_uri registered, response_type registered, userinfo-claims and
\* response-type compatibility, scope support, and stop at the first failure:
\* a parsed request is rejected with the message and oauth_error of the
\* earliest failing validator, and is returned when none fails.
C18_EarliestFailingValidatorDecides ==
    parse_result.outcome # "none" =>
        /\ parse_result.error = EarliestFailure(auth_req)
        /\ parse_result.outcome = "returned" <=> EarliestFailure(auth_req) = NoError

\* a request of a known client that asks for userinfo claims with
\* response_type id_token and for an unsupported scope was rejected by the
\* userinfo-claims check, the earlier of the two it violates
C18_Witness ==
    /\ parse_result.outcome = "InvalidAuthenticationRequest"
    /\ parse_result.error.message = "Userinfo claims cannot be requested"
    /\ _requested_scope_is_supported(auth_req) # NoError

\* a request of an unknown client with an unregistered redirect_uri and an
\* unsupported scope was rejected by the client check
C18_WitnessUnknownClient ==
    /\ parse_result.outcome = "InvalidAuthenticationRequest"
    /\ parse_result.error.oauth_error = "unauthorized_client"
    /\ auth_req.redirect_uri = "https://evil/cb"
    /\ _requested_scope_is_supported(auth_req) # NoError

\* C19: every request accepted by parse_authentication_request that carries
\* claims.userinfo has a response_type containing token or code, so that an
\* access token is issued to the client; a request with claims.userinfo whose
\* response-type set is {id_token} and which passes the validators before
\* the userinfo-claims check is rejected with oauth_error invalid_request.
C19_UserinfoClaimsNeedAccessToken ==
    (parse_result.outcome # "none" /\ "userinfo" \in DOMAIN auth_req.claims) =>
        /\ parse_result.outcome = "returned" =>
               {"token", "code"} \cap Range(auth_req.response_type) # {}
        /\ (/\ Range(auth_req.response_type) = {"id_token"}
            /\ _authorization_request_verify(auth_req) = NoError
            /\ _client_id_is_known(auth_req) = NoError
            /\ _redirect_uri_is_in_registered_redirect_uris(auth_req) = NoError
            /\ _response_type_is_in_registered_response_types(auth_req) = NoError)
           => /\ parse_result.outcome = "InvalidAuthenticationRequest"
              /\ parse_result.error.oauth_error = "invalid_request"

\* C20: the claims authorize requests from the user-info source for an ID
\* Token are the names of claims.id_token, plus the scope-derived claims
\* exactly when the response-type set is {id_token}; the code exchange
\* requests only the names of the original request's claims.id_token.
C20_IdTokenRequestedClaims ==
    /\ (authz.status \in {"returned", "TypeError"}
        /\ "id_token" \in Range(authz.request.response_type)) =>
           authz.requested_claims =
               IF Range(authz.request.response_type) = {"id_token"}
               THEN Update(_get_requested_claims_in(authz.request, "id_token"),
                           scope2claims(authz.request.scope))
               ELSE _get_requested_claims_in(authz.request, "id_token")
    /\ \A c \in DOMAIN calls :
          (calls[c].pc = "done" /\ calls[c].request.grant_type = "authorization_code"
           /\ calls[c].error.kind \in {"", "TypeError"}) =>
              calls[c].requested_claims =
                  _get_requested_claims_in(calls[c].authentication_request, "id_token")

(***************************************************************************)
(* Further properties of the token endpoint (checked under SpecToken).     *)
(***************************************************************************)
\* the successive positions of a code exchange
CodeExchangeOrder ==
    {<<"idle", "get_authorization_request_for_code">>,
     <<"get_authorization_request_for_code", "get_subject_identifier_for_code">>,
     <<"get_subject_identifier_for_code", "exchange_code_for_token">>,
     <<"exchange_code_for_token", "create_refresh_token">>,
     <<"create_refresh_token", "create_signed_id_token">>,
     <<"create_signed_id_token", "done">>}

\* call c was rejected with InvalidTokenRequest by _do_code_exchange
RejectedCodeExchange(call) ==
    /\ call.pc = "done"
    /\ call.request.grant_type = "authorization_code"
    /\ call.error.kind = "InvalidTokenRequest"

\* the authorization state as the token endpoint changes it
AuthzStateTables == <<authorization_codes, access_tokens, refresh_tokens>>

C21_OrderedState ==
    \A c \in DOMAIN calls :
        LET call == calls[c]
            n == CodeNumber(call.request.code)
        IN  /\ (call.request.grant_type = "authorization_code"
                /\ call.pc \in {"get_subject_identifier_for_code", "exchange_code_for_token",
                                 "create_refresh_token", "create_signed_id_token"})
               => /\ n # 0
                  /\ call.authentication_request = authorization_codes[n].request
                  /\ call.request.redirect_uri = authorization_codes[n].request.redirect_uri
            /\ (call.request.grant_type = "authorization_code"
                /\ "refresh_token" \in DOMAIN call.response)
               => /\ authorization_codes[n].used
                  /\ call.access_token_value # "None"
                  /\ \E k \in DOMAIN refresh_tokens :
                        /\ call.response["refresh_token"] = RefreshTokenValue(k)
                        /\ refresh_tokens[k].access_token = call.access_token_value
            /\ RejectedCodeExchange(call)
               => call.access_token_value = "None" /\ call.response = EmptyMap

C21_OrderedStep ==
    \A c \in DOMAIN calls :
        (calls'[c] # calls[c] /\ calls'[c].request.grant_type = "authorization_code") =>
            /\ calls'[c].pc # "done" => <<calls[c].pc, calls'[c].pc>> \in CodeExchangeOrder
            /\ authorization_codes' # authorization_codes
               => calls[c].pc = "exchange_code_for_token"
            /\ access_tokens' # access_tokens => calls[c].pc = "exchange_code_for_token"
            /\ refresh_tokens' # refresh_tokens
               => /\ calls[c].pc = "create_refresh_token"
                  /\ authorization_codes[CodeNumber(calls[c].request.code)].used
            /\ calls[c].pc \in {"idle", "get_authorization_request_for_code",
                                 "get_subject_identifier_for_code"}
               => UNCHANGED AuthzStateTables
            /\ RejectedCodeExchange(calls'[c]) => UNCHANGED AuthzStateTables

\* C21: within one code exchange the authorization state is accessed in the
\* order get_authorization_request_for_code, get_subject_identifier_for_code
\* and get_user_id_for_subject_identifier, exchange_code_for_token,
\* create_refresh_token, and the redirect_uri is compared with that of the
\* original request before exchange_code_for_token: a refresh token is
\* created only after the exchange of that code succeeded, and a request
\* rejected with InvalidTokenRequest for its redirect_uri consumes no code
\* and creates no access or refresh token.
C21_CodeExchangeOrder == [] C21_OrderedState /\ [][C21_OrderedStep]_vars

\* a code exchange was rejected for its redirect_uri while the code it
\* presented is still unused and no token exists for it
C21_Witness ==
    \E c \in DOMAIN calls :
        /\ RejectedCodeExchange(calls[c])
        /\ CodeNumber(calls[c].request.code) # 0
        /\ calls[c].request.redirect_uri
              # authorization_codes[CodeNumber(calls[c].request.code)].request.redirect_uri
        /\ ~ authorization_codes[CodeNumber(calls[c].request.code)].used
        /\ refresh_tokens = <<>>

\* C22: a code exchange succeeds only for the client the code was issued
\* to: whenever handle_token_request returns tokens for a code, the client_id
\* that passed client authentication equals the client_id of the
\* authentication request bound to the code, and so the aud of the returned
\* ID Token.
C22_ExchangeOnlyForIssuedClient ==
    \A c \in Calls :
        ReturnedExchange(c) =>
            LET code == authorization_codes[CodeNumber(calls[c].request.code)]
            IN  /\ verify_client_authentication(calls[c].request)
                /\ calls[c].request.client_id = code.request.client_id
                /\ calls[c].request.client_id = calls[c].response["id_token"].aud

(***************************************************************************)
(* Further properties of Provider.authorize (checked under Spec).          *)
(***************************************************************************)
C23_NothingIssuedState ==
    authz.status = "AuthorizationError" =>
        /\ authorization_codes = <<>>
        /\ access_tokens = <<>>
        /\ authz.authz_code = "None"
        /\ authz.access_token_value = "None"
        /\ authz.response = EmptyMap

C23_NothingIssuedStep ==
    (authz.status = "none" /\ authz'.status = "AuthorizationError") =>
        UNCHANGED <<authorization_codes, access_tokens, refresh_tokens, now>>

\* C23: the subject-identifier check of authorize runs before anything is
\* issued: when authorize fails with AuthorizationError, that call has
\* created no authorization code and no access token in the authorization
\* state and has signed no ID Token.
C23_NothingIssuedOnAuthorizationError ==
    [] C23_NothingIssuedState /\ [][C23_NothingIssuedStep]_vars

\* authorize failed with AuthorizationError for a request whose response_type
\* asks for a code, an access token and an ID Token
C23_Witness ==
    /\ authz.status = "AuthorizationError"
    /\ Range(authz.request.response_type) = {"code", "token", "id_token"}

\* the X of a claim requested in the OIDC form {"value": X}, "" otherwise
RequestedSubValue(authentication_request, member) ==
    LET requested == RequestedSub(authentication_request, member)
    IN  IF requested.kind = "value" THEN requested.value ELSE ""

\* C24: when the claims parameter asks for a subject in the OIDC form
\* {"sub": {"value": X}} under id_token, under userinfo, or with the same X
\* under both, and X is the subject identifier derived for the user and
\* client, authorize does not raise AuthorizationError.
C24_MatchingRequestedSubIsAccepted ==
    LET requested_id_token_sub == RequestedSubValue(authz.request, "id_token")
        requested_userinfo_sub == RequestedSubValue(authz.request, "userinfo")
    IN  ( /\ authz.status # "none"
          /\ {requested_id_token_sub, requested_userinfo_sub} \ {""} = {authz.sub}
          /\ RequestedSub(authz.request, "id_token").kind \in {"null", "value"}
          /\ RequestedSub(authz.request, "userinfo").kind \in {"null", "value"} )
        => authz.status # "AuthorizationError"

\* C25: to_error_url is total on every InvalidAuthenticationRequest the
\* validators can raise: it returns a redirect URL or None and never fails
\* with another exception, a schema failure of a request without
\* response_type and with a redirect_uri included.
C25_ToErrorUrlIsTotal ==
    (parse_result.outcome = "InvalidAuthenticationRequest" /\ error_url.outcome # "none")
        => error_url.outcome \in {"url", "None"}

====
